---------------------------- MODULE Spec2Model ----------------------------
(***************************************************************************)
(* Model of the file-utility server: the tag-based cleanup job             *)
(* (services/cleanup, config/cloudinary) and the PDF page-range parser     *)
(* (services/pdfProcessor).  The three services are concatenated in        *)
(* src/server/config/cloudinary.js; line numbers below refer to it.        *)
(***************************************************************************)
EXTENDS Integers, Sequences, FiniteSets, TLC

(***************************************************************************)
(* Bounds of the model.                                                    *)
(***************************************************************************)
\* Number of distinct public ids the store can hold at once.
MaxObjects == 3
\* Number of cleanupExpiredFiles invocations that can be in flight at once.
MaxSweeps == 2

(***************************************************************************)
(* Program constants.                                                      *)
(***************************************************************************)
\* max_results of the listing call (line 89).  The program's value is 500;
\* the model scales it down so that a store of MaxObjects can exceed a page.
MaxResults == 2
\* FILE_TTL_HOURS (line 108) with the environment variable unset.  Time is
\* counted in hours.
FILE_TTL_HOURS == 1

Ids == 1..MaxObjects
Sweeps == 1..MaxSweeps
ResourceTypes == {"image", "raw"}

VARIABLES
    store,      \* the external store's objects tagged temp_upload: public ids, newest first
    kind,       \* public id -> resource_type of the stored object
    age,        \* public id -> Date.now() - created_at in hours, saturating at FILE_TTL_HOURS + 1
    sw,         \* invocation slot -> the frame of one cleanupExpiredFiles() call
    pageString, \* parsePageRange's first argument, a sequence of characters
    totalPages, \* parsePageRange's second argument
    result,     \* the array parsePageRange returned
    called,     \* whether parsePageRange has been called
    request,    \* the document request a route handler was called with
    stage,      \* where that handler is: "idle", "received", "uploading", "responded"
    outputs,    \* the documents the handler built, in order, with their metadata
    pending,    \* indices of outputs whose uploadToCloudinary call is in flight
    stored,     \* indices of outputs the external store now holds
    response,   \* the response sent to the caller
    cause,      \* what made the handler send a failure response
    now,        \* Date.now(), in milliseconds since the server started
    cloud,      \* the objects of the external store, whatever their tags
    calls,      \* request -> the uploadToCloudinary calls its handler made
    env,        \* process.env: CLEANUP_INTERVAL_MINUTES and FILE_TTL_HOURS, each unset or a string
    config,     \* the constants computed from env when the cleanup module is loaded
    timer,      \* the idle timer set on the request's socket, and what was stored when it fired
    editor,     \* the state of the PdfEditor component: its useState values
    flights     \* the client's requests awaiting their response: request -> how many

sweepVars == <<store, kind, age, sw>>
parseVars == <<pageString, totalPages, result, called>>
docVars == <<request, stage, outputs, pending, stored, response, cause>>
storeVars == <<now, cloud, calls>>
configVars == <<env, config>>
timeoutVars == <<timer>>
editorVars == <<editor, flights>>
laterVars == <<configVars, timeoutVars, editorVars>>
restVars == <<storeVars, laterVars>>
vars == <<store, kind, age, sw, pageString, totalPages, result, called,
          request, stage, outputs, pending, stored, response, cause,
          now, cloud, calls, env, config, timer, editor, flights>>

Range(s) == {s[i] : i \in 1..Len(s)}

RECURSIVE SelectSeqBy(_, _)
\* Array.prototype.filter on a sequence of ids, by membership in a set.
SelectSeqBy(s, keep) ==
    IF s = <<>> THEN <<>>
    ELSE IF Head(s) \in keep THEN <<Head(s)>> \o SelectSeqBy(Tail(s), keep)
         ELSE SelectSeqBy(Tail(s), keep)

Min(a, b) == IF a <= b THEN a ELSE b

(***************************************************************************)
(* services/cleanup                                                        *)
(***************************************************************************)

isExpiredInclusive(createdAge) == createdAge >= FILE_TTL_HOURS

\* isExpired (lines 115-119): Date.now() - creationTime > expirationTime.
isExpired(createdAge) == createdAge > FILE_TTL_HOURS

\* getResourcesByTag (lines 87-92): one resources_by_tag call with
\* max_results and no next_cursor, so the provider answers with its first
\* page only: at most MaxResults objects of the resource type, newest first
\* (the provider's default direction).
getResourcesByTag(resourceType) ==
    SubSeq(SelectSeqBy(store, {o \in Ids : kind[o] = resourceType}), 1,
           Min(MaxResults, Len(SelectSeqBy(store, {o \in Ids : kind[o] = resourceType}))))

\* The frame of an invocation that has not started.  The last three fields
\* are not variables of the program: they record, for the cleanupResourceType
\* call that ran last, how many expired resources its filter found, and how
\* many deleteResource calls it has seen return and resolve.
IdleFrame ==
    [pc |-> "idle", resourceType |-> "image", expiredResources |-> <<>>, i |-> 1,
     deletedCount |-> 0, imagesDeleted |-> 0, rawDeleted |-> 0, totalDeleted |-> 0,
     listFailed |-> {}, nExpired |-> 0, attempted |-> 0, resolved |-> 0]

Active(s) == sw[s].pc \in {"list", "delete"}

totalDeletedFirstOnly(imagesDeleted, rawDeleted) == imagesDeleted

\* line 168
totalDeletedOf(imagesDeleted, rawDeleted) == imagesDeleted + rawDeleted

\* What line 171 reports of a completed invocation (the duration left out).
Report(f) ==
    [totalDeleted |-> f.totalDeleted, imagesDeleted |-> f.imagesDeleted,
     rawDeleted |-> f.rawDeleted]

\* cleanupResourceType returns n (line 151, or line 133) to
\* cleanupExpiredFiles (lines 163-171): after 'image' the 'raw' call starts
\* with a fresh deletedCount (line 127) and goes up to its listing call;
\* after 'raw' the totals are logged and the invocation resolves.
ReturnCount(f, n) ==
    IF f.resourceType = "image"
    THEN [f EXCEPT !.imagesDeleted = n, !.resourceType = "raw", !.pc = "list",
                   !.deletedCount = 0, !.expiredResources = <<>>, !.i = 1]
    ELSE [f EXCEPT !.rawDeleted = n, !.totalDeleted = totalDeletedOf(f.imagesDeleted, n),
                   !.pc = "done", !.deletedCount = 0, !.expiredResources = <<>>,
                   !.i = 1]

\* The for-of loop of lines 138-146 moves to the next expired resource, or
\* falls through to 'return deletedCount' (line 151) after the last one.
NextResource(f) ==
    IF f.i < Len(f.expiredResources)
    THEN [f EXCEPT !.i = f.i + 1]
    ELSE ReturnCount(f, f.deletedCount)

OnListErrorRaise(f) == [f EXCEPT !.pc = "raised"]

OnListErrorSkipRaw(f) ==
    [f EXCEPT !.pc = "done", !.totalDeleted = totalDeletedOf(f.imagesDeleted, f.rawDeleted)]

\* catch of lines 147-149: the listing error is logged and the function
\* returns deletedCount.
OnListError(f) == ReturnCount(f, f.deletedCount)

OnDeleteErrorAbort(f) == ReturnCount(f, f.deletedCount)

\* catch of lines 143-145: the deletion error is logged and the loop goes on.
OnDeleteError(f) == NextResource(f)

OnDeleteOkNoCount(f) == NextResource(f)

\* lines 141-142: after the awaited destroy resolves, deletedCount++.
OnDeleteOk(f) == NextResource([f EXCEPT !.deletedCount = f.deletedCount + 1])

\* lines 132-138: an empty listing returns 0; otherwise the expired
\* resources are filtered out (isExpired reads the clock now) and the loop
\* starts, or is skipped when none is expired.
OnListOk(f, resources) ==
    IF Len(resources) = 0 THEN ReturnCount(f, 0)
    ELSE LET expired == SelectSeqBy(resources, {o \in Ids : isExpired(age[o])})
         IN  IF expired = <<>> THEN ReturnCount(f, f.deletedCount)
             ELSE [f EXCEPT !.expiredResources = expired, !.i = 1, !.pc = "delete",
                            !.nExpired = Len(expired)]

\* cleanupExpiredFiles (lines 157-163) up to its first await: the call of
\* cleanupResourceType('image') up to the listing call.
StartFrame == [IdleFrame EXCEPT !.pc = "list"]

\* The frame as the answer to the listing call finds it.
Listed(f) == [f EXCEPT !.nExpired = 0, !.attempted = 0, !.resolved = 0]

\* An invocation of cleanupExpiredFiles, in the first free slot.  Nothing in
\* the function looks at other invocations.
cleanupExpiredFiles(s) ==
    /\ ~Active(s)
    /\ \A t \in Sweeps : t < s => Active(t)
    /\ sw' = [sw EXCEPT ![s] = StartFrame]
    /\ UNCHANGED <<store, kind, age>>
    /\ UNCHANGED parseVars
    /\ UNCHANGED docVars
    /\ UNCHANGED restVars

\* node-cron fires the scheduled task at every interval (lines 180-191).
CronTick(s) == cleanupExpiredFiles(s)

\* runCleanupNow (lines 196-198).
RunCleanupNow(s) == cleanupExpiredFiles(s)

\* The awaited getResourcesByTag resolves (line 130).
ListOk(s) ==
    /\ sw[s].pc = "list"
    /\ sw' = [sw EXCEPT ![s] =
                 OnListOk(Listed(sw[s]), getResourcesByTag(sw[s].resourceType))]
    /\ UNCHANGED <<store, kind, age>>
    /\ UNCHANGED parseVars
    /\ UNCHANGED docVars
    /\ UNCHANGED restVars

\* The awaited getResourcesByTag rejects.
ListFail(s) ==
    /\ sw[s].pc = "list"
    /\ sw' = [sw EXCEPT ![s] =
                 OnListError([Listed(sw[s]) EXCEPT
                                 !.listFailed = @ \cup {sw[s].resourceType}])]
    /\ UNCHANGED <<store, kind, age>>
    /\ UNCHANGED parseVars
    /\ UNCHANGED docVars
    /\ UNCHANGED restVars

\* The resource the loop is at: the deleteResource call in flight is for it.
Target(s) == sw[s].expiredResources[sw[s].i]

\* The deleteResource call in flight has returned.
Called(f) == [f EXCEPT !.attempted = @ + 1]

\* The awaited deleteResource resolves (line 140): the provider has removed
\* the object, or answers 'not found' when it is already gone.
DeleteOk(s, o) ==
    /\ sw[s].pc = "delete"
    /\ o = Target(s)
    /\ store' = SelectSeqBy(store, Ids \ {o})
    /\ kind' = [kind EXCEPT ![o] = "image"]
    /\ age' = [age EXCEPT ![o] = 0]
    /\ sw' = [sw EXCEPT ![s] = OnDeleteOk([Called(sw[s]) EXCEPT !.resolved = @ + 1])]
    /\ UNCHANGED parseVars
    /\ UNCHANGED docVars
    /\ UNCHANGED restVars

\* The awaited deleteResource rejects.
DeleteFail(s, o) ==
    /\ sw[s].pc = "delete"
    /\ o = Target(s)
    /\ sw' = [sw EXCEPT ![s] = OnDeleteError(Called(sw[s]))]
    /\ UNCHANGED <<store, kind, age>>
    /\ UNCHANGED parseVars
    /\ UNCHANGED docVars
    /\ UNCHANGED restVars

\* A public id some running invocation still holds in its expired list.
Held(o) == \E s \in Sweeps : sw[s].pc = "delete" /\ o \in Range(sw[s].expiredResources)

Free == {o \in Ids : o \notin Range(store) /\ ~Held(o)}

\* The public id of the next upload: one no stored object and no running
\* invocation carries.
FreshId == IF Free = {} THEN 0 ELSE CHOOSE o \in Free : \A p \in Free : o <= p

\* uploadToCloudinary (lines 17-35): a new object tagged temp_upload, created
\* now, of the resource type the route asks for.
Upload(o, k) ==
    /\ o = FreshId
    /\ store' = <<o>> \o store
    /\ kind' = [kind EXCEPT ![o] = k]
    /\ age' = [age EXCEPT ![o] = 0]
    /\ UNCHANGED sw
    /\ UNCHANGED parseVars
    /\ UNCHANGED docVars
    /\ UNCHANGED restVars

\* An hour of wall-clock time passes.
TimePasses ==
    /\ \E o \in Range(store) : age[o] <= FILE_TTL_HOURS
    /\ age' = [o \in Ids |-> IF o \in Range(store) THEN Min(age[o] + 1, FILE_TTL_HOURS + 1)
                             ELSE age[o]]
    /\ UNCHANGED <<store, kind, sw>>
    /\ UNCHANGED parseVars
    /\ UNCHANGED docVars
    /\ UNCHANGED restVars

(***************************************************************************)
(* services/pdfProcessor: parsePageRange                                   *)
(***************************************************************************)
\* Longest page-range string tried.
MaxLen == 5
\* Largest page count tried.
MaxPages == 2

\* The characters tried: digits, the two separators, a blank, and a letter
\* standing for any character that is none of these.
Alphabet == {"0", "1", "2", "-", ",", " ", "a"}

Strings == UNION {[1..n -> Alphabet] : n \in 0..MaxLen}

DigitValue(c) ==
    CASE c = "0" -> 0 [] c = "1" -> 1 [] c = "2" -> 2 [] c = "3" -> 3 [] c = "4" -> 4
      [] c = "5" -> 5 [] c = "6" -> 6 [] c = "7" -> 7 [] c = "8" -> 8 [] c = "9" -> 9

IsDigit(c) == c \in {"0", "1", "2", "3", "4", "5", "6", "7", "8", "9"}

RECURSIVE TrimStart(_)
TrimStart(s) == IF s # <<>> /\ Head(s) = " " THEN TrimStart(Tail(s)) ELSE s

RECURSIVE TrimEnd(_)
TrimEnd(s) ==
    IF s # <<>> /\ s[Len(s)] = " " THEN TrimEnd(SubSeq(s, 1, Len(s) - 1)) ELSE s

\* String.prototype.trim
Trim(s) == TrimEnd(TrimStart(s))

RECURSIVE Split(_, _)
\* String.prototype.split on a one-character separator: the pieces between
\* the separators, empty pieces kept; one empty piece for the empty string.
Split(s, sep) ==
    IF \E j \in 1..Len(s) : s[j] = sep
    THEN LET j == CHOOSE j \in 1..Len(s) : s[j] = sep /\ \A h \in 1..(j - 1) : s[h] # sep
         IN  <<SubSeq(s, 1, j - 1)>> \o Split(SubSeq(s, j + 1, Len(s)), sep)
    ELSE <<s>>

RECURSIVE DigitsValue(_, _)
\* The value of the longest prefix of digits of s, after the digits read so far.
DigitsValue(s, acc) ==
    IF s # <<>> /\ IsDigit(Head(s))
    THEN DigitsValue(Tail(s), 10 * acc + DigitValue(Head(s)))
    ELSE acc

\* parseInt of a string: leading blanks skipped, an optional sign, then the
\* longest run of digits; what follows the digits is ignored.  The result is
\* <<n>> for the number n and <<>> for NaN (no digit where one is needed).
parseInt(s) ==
    LET t == TrimStart(s)
        signed == t # <<>> /\ Head(t) \in {"+", "-"}
        u == IF signed THEN Tail(t) ELSE t
    IN  IF u = <<>> \/ ~IsDigit(Head(u)) THEN <<>>
        ELSE IF signed /\ Head(t) = "-" THEN <<0 - DigitsValue(u, 0)>>
             ELSE <<DigitsValue(u, 0)>>

\* Set.prototype.add on a Set kept as the sequence of its insertions.
SetAdd(pages, x) == IF x \in Range(pages) THEN pages ELSE Append(pages, x)

RECURSIVE RangeLoopExclusive(_, _, _, _)
RangeLoopExclusive(pages, i, end, total) ==
    IF i < end /\ i <= total
    THEN RangeLoopExclusive(IF i >= 1 THEN SetAdd(pages, i - 1) ELSE pages, i + 1, end, total)
    ELSE pages

RECURSIVE RangeLoop(_, _, _, _)
\* The for loop of lines 248-250, from i on.
RangeLoop(pages, i, end, total) ==
    IF i <= end /\ i <= total
    THEN RangeLoop(IF i >= 1 THEN SetAdd(pages, i - 1) ELSE pages, i + 1, end, total)
    ELSE pages

AddRangeSwapped(pages, part, total) ==
    LET bounds == [j \in 1..Len(Split(part, "-")) |-> parseInt(Trim(Split(part, "-")[j]))]
        start == bounds[1]
        end == bounds[2]
    IN  IF start = <<>> \/ end = <<>> THEN pages
        ELSE RangeLoop(pages, Min(start[1], end[1]), IF start[1] > end[1] THEN start[1] ELSE end[1], total)

\* lines 247-250: the first two pieces between dashes are parsed; with NaN
\* for either the loop condition is false at once.
AddRange(pages, part, total) ==
    LET bounds == [j \in 1..Len(Split(part, "-")) |-> parseInt(Trim(Split(part, "-")[j]))]
        start == bounds[1]
        end == bounds[2]
    IN  IF start = <<>> \/ end = <<>> THEN pages
        ELSE RangeLoop(pages, start[1], end[1], total)

AddPageNoUpperBound(pages, part, total) ==
    LET pageNum == parseInt(part)
    IN  IF pageNum # <<>> /\ pageNum[1] >= 1 THEN SetAdd(pages, pageNum[1] - 1) ELSE pages

\* lines 252-255: a comparison with NaN is false.
AddPage(pages, part, total) ==
    LET pageNum == parseInt(part)
    IN  IF pageNum # <<>> /\ pageNum[1] >= 1 /\ pageNum[1] <= total
        THEN SetAdd(pages, pageNum[1] - 1)
        ELSE pages

RECURSIVE AddParts(_, _, _)
\* The loop of lines 245-257 over the trimmed parts.
AddParts(pages, parts, total) ==
    IF parts = <<>> THEN pages
    ELSE LET part == Trim(Head(parts))
         IN  AddParts(IF \E j \in 1..Len(part) : part[j] = "-"
                      THEN AddRange(pages, part, total)
                      ELSE AddPage(pages, part, total),
                      Tail(parts), total)

RECURSIVE Insert(_, _)
Insert(sorted, x) ==
    IF sorted = <<>> THEN <<x>>
    ELSE IF x <= Head(sorted) THEN <<x>> \o sorted
         ELSE <<Head(sorted)>> \o Insert(Tail(sorted), x)

InsertionOrder(s) == s

RECURSIVE SortAscending(_)
\* Array.prototype.sort((a, b) => a - b)
SortAscending(s) == IF s = <<>> THEN <<>> ELSE Insert(SortAscending(Tail(s)), Head(s))

\* parsePageRange (lines 241-260)
parsePageRange(str, total) == SortAscending(AddParts(<<>>, Split(str, ","), total))

\* A call parsePageRange(pageString, totalPages).
Parse ==
    /\ ~called
    /\ result' = parsePageRange(pageString, totalPages)
    /\ called' = TRUE
    /\ UNCHANGED <<pageString, totalPages>>
    /\ UNCHANGED sweepVars
    /\ UNCHANGED docVars
    /\ UNCHANGED restVars

(***************************************************************************)
(* services/pdfProcessor: mergePdfs, splitPdf, reorderPdfPages, getPdfInfo *)
(***************************************************************************)
\* A buffer is the bytes of a document, kept as the sequence of its pages, or
\* bytes PDFDocument.load cannot parse.  Page p of the f-th uploaded file is
\* the number 10 * f + p, so that every page of a request is distinct.
Garbage == [parsable |-> FALSE, pages |-> <<>>]

Document(f, n) == [parsable |-> TRUE, pages |-> [p \in 1..n |-> 10 * f + p]]

\* The message of the error PDFDocument.load throws, and of the error the
\* provider's upload callback is given: text of the libraries.
LoadErrorMessage == "load error"

UploadErrorMessage == "upload error"

Resolved(v) == [threw |-> FALSE, message |-> "", value |-> v]

Rejected(msg) == [threw |-> TRUE, message |-> msg, value |-> <<>>]

getPageCount(pdf) == Len(pdf.pages)

getPageIndices(pdf) == [j \in 1..Len(pdf.pages) |-> j - 1]

\* copyPages(src, indices) followed by addPage of each copy, in order.
copyPages(pdf, indices) == [j \in 1..Len(indices) |-> pdf.pages[indices[j] + 1]]

\* save() and Buffer.from: the bytes of a document with these pages; a
\* document without pages is saved with one blank page, written 0.
save(pages) == [parsable |-> TRUE, pages |-> IF pages = <<>> THEN <<0>> ELSE pages]

RECURSIVE MergeLoopPrepend(_, _)
MergeLoopPrepend(mergedPdf, pdfBuffers) ==
    IF pdfBuffers = <<>> THEN Resolved(save(mergedPdf))
    ELSE IF ~Head(pdfBuffers).parsable THEN Rejected(LoadErrorMessage)
         ELSE MergeLoopPrepend(copyPages(Head(pdfBuffers), getPageIndices(Head(pdfBuffers))) \o mergedPdf,
                               Tail(pdfBuffers))

RECURSIVE MergeLoopSkip(_, _)
MergeLoopSkip(mergedPdf, pdfBuffers) ==
    IF pdfBuffers = <<>> THEN Resolved(save(mergedPdf))
    ELSE IF ~Head(pdfBuffers).parsable THEN MergeLoopSkip(mergedPdf, Tail(pdfBuffers))
         ELSE MergeLoopSkip(mergedPdf \o copyPages(Head(pdfBuffers), getPageIndices(Head(pdfBuffers))),
                            Tail(pdfBuffers))

RECURSIVE MergeLoop(_, _)
\* The loop of lines 224-228: load throws at the first unparsable buffer.
MergeLoop(mergedPdf, pdfBuffers) ==
    IF pdfBuffers = <<>> THEN Resolved(save(mergedPdf))
    ELSE IF ~Head(pdfBuffers).parsable THEN Rejected(LoadErrorMessage)
         ELSE MergeLoop(mergedPdf \o copyPages(Head(pdfBuffers), getPageIndices(Head(pdfBuffers))),
                        Tail(pdfBuffers))

\* mergePdfs (lines 221-232)
mergePdfs(pdfBuffers) == MergeLoop(<<>>, pdfBuffers)

Untrimmed(segments) == segments

RECURSIVE TrimmedNonEmpty(_)
\* .map(s => s.trim()).filter(s => s) of line 275
TrimmedNonEmpty(segments) ==
    IF segments = <<>> THEN <<>>
    ELSE IF Trim(Head(segments)) = <<>> THEN TrimmedNonEmpty(Tail(segments))
         ELSE <<Trim(Head(segments))>> \o TrimmedNonEmpty(Tail(segments))

RECURSIVE SplitLoopKeepEmpty(_, _, _)
SplitLoopKeepEmpty(results, originalPdf, groups) ==
    IF groups = <<>> THEN results
    ELSE SplitLoopKeepEmpty(
             Append(results,
                    [buffer |-> save(copyPages(originalPdf,
                                               parsePageRange(Head(groups), getPageCount(originalPdf)))),
                     pages |-> Head(groups),
                     pageCount |-> Len(parsePageRange(Head(groups), getPageCount(originalPdf)))]),
             originalPdf, Tail(groups))

RECURSIVE SplitLoop(_, _, _)
\* The loop of lines 277-292 over the groups.
SplitLoop(results, originalPdf, groups) ==
    IF groups = <<>> THEN results
    ELSE LET group == Head(groups)
             pageIndices == parsePageRange(group, getPageCount(originalPdf))
         IN  IF Len(pageIndices) = 0 THEN SplitLoop(results, originalPdf, Tail(groups))
             ELSE SplitLoop(Append(results,
                                   [buffer |-> save(copyPages(originalPdf, pageIndices)),
                                    pages |-> group,
                                    pageCount |-> Len(pageIndices)]),
                            originalPdf, Tail(groups))

\* splitPdf (lines 268-295)
splitPdf(pdfBuffer, pageRanges) ==
    IF ~pdfBuffer.parsable THEN Rejected(LoadErrorMessage)
    ELSE Resolved(SplitLoop(<<>>, pdfBuffer, TrimmedNonEmpty(Split(pageRanges, ";"))))

RECURSIVE ValidOrderAscending(_, _)
ValidOrderAscending(newOrder, total) ==
    IF newOrder = <<>> THEN <<>>
    ELSE IF Head(newOrder) >= 1 /\ Head(newOrder) <= total
         THEN Insert(ValidOrderAscending(Tail(newOrder), total), Head(newOrder) - 1)
         ELSE ValidOrderAscending(Tail(newOrder), total)

RECURSIVE ValidOrder(_, _)
\* .filter(n => n >= 1 && n <= totalPages).map(n => n - 1) of lines 308-310
ValidOrder(newOrder, total) ==
    IF newOrder = <<>> THEN <<>>
    ELSE IF Head(newOrder) >= 1 /\ Head(newOrder) <= total
         THEN <<Head(newOrder) - 1>> \o ValidOrder(Tail(newOrder), total)
         ELSE ValidOrder(Tail(newOrder), total)

reorderPdfPagesUnchecked(pdfBuffer, newOrder) ==
    IF ~pdfBuffer.parsable THEN Rejected(LoadErrorMessage)
    ELSE Resolved(save(copyPages(pdfBuffer, ValidOrder(newOrder, getPageCount(pdfBuffer)))))

\* reorderPdfPages (lines 303-322)
reorderPdfPages(pdfBuffer, newOrder) ==
    IF ~pdfBuffer.parsable THEN Rejected(LoadErrorMessage)
    ELSE LET validOrder == ValidOrder(newOrder, getPageCount(pdfBuffer))
         IN  IF Len(validOrder) = 0 THEN Rejected("Invalid page order specified")
             ELSE Resolved(save(copyPages(pdfBuffer, validOrder)))

\* getPdfInfo (lines 329-336), the page count only.
getPdfInfo(pdfBuffer) ==
    IF ~pdfBuffer.parsable THEN Rejected(LoadErrorMessage)
    ELSE Resolved([pageCount |-> getPageCount(pdfBuffer)])

(***************************************************************************)
(* routes/pdf, kept in src/server/middleware/rateLimiter.js: the merge,    *)
(* split and reorder handlers.  Line numbers in this section refer to it.  *)
(***************************************************************************)
\* Most files in a request, longest order array, longest split expression.
MaxFiles == 3
MaxOrderLen == 3
MaxExprLen == 5

NoRequest == [op |-> "none", files |-> <<>>, pages |-> <<>>, order |-> <<>>]

NoResponse == [status |-> 0, error |-> "", details |-> ""]

\* res.json({ success: true, ... })
Success == [status |-> 200, error |-> "", details |-> ""]

\* The failure responses of the three handlers, by operation and cause.  The
\* 400 responses are the early returns; the 500 response is the handler's one
\* catch block, which reports error.message as details.
FailureResponse(op, why, message) ==
    CASE why = "TooFewFiles" ->
           [status |-> 400, error |-> "At least 2 PDF files are required for merging", details |-> ""]
      [] why = "NoFile" ->
           [status |-> 400, error |-> "No file uploaded", details |-> ""]
      [] why = "NoPages" ->
           [status |-> 400, error |-> "Page ranges required", details |-> ""]
      [] why = "InvalidOrderFormat" ->
           [status |-> 400, error |-> "Invalid order format", details |-> ""]
      [] why = "NoValidPages" ->
           [status |-> 400, error |-> "No valid pages specified", details |-> ""]
      [] OTHER ->
           [status |-> 500,
            error |-> CASE op = "merge" -> "Failed to merge PDFs"
                        [] op = "split" -> "Failed to split PDF"
                        [] op = "reorder" -> "Failed to reorder PDF pages",
            details |-> message]

\* The handler returns a failure response before any upload is started.
Fail(why, message) ==
    /\ response' = FailureResponse(request.op, why, message)
    /\ cause' = why
    /\ stage' = "responded"
    /\ UNCHANGED <<request, outputs, pending, stored>>

\* The handler starts uploadToCloudinary for each document it built.
StartUploads(built) ==
    /\ outputs' = built
    /\ pending' = 1..Len(built)
    /\ stage' = "uploading"
    /\ UNCHANGED <<request, stored, response, cause>>

\* router.post('/merge') up to its upload call (lines 222-242).
MergeRoute ==
    /\ request.op = "merge" /\ stage = "received"
    /\ IF Len(request.files) < 2 THEN Fail("TooFewFiles", "")
       ELSE LET mergedBuffer == mergePdfs(request.files)
            IN  IF mergedBuffer.threw THEN Fail("MalformedDocument", mergedBuffer.message)
                ELSE LET mergedInfo == getPdfInfo(mergedBuffer.value)
                     IN  IF mergedInfo.threw THEN Fail("MalformedDocument", mergedInfo.message)
                         ELSE StartUploads(<<[buffer |-> mergedBuffer.value,
                                              pages |-> <<>>,
                                              pageCount |-> mergedInfo.value.pageCount]>>)
    /\ UNCHANGED sweepVars
    /\ UNCHANGED parseVars
    /\ UNCHANGED restVars

\* router.post('/split') up to its upload calls (lines 264-305).
SplitRoute ==
    /\ request.op = "split" /\ stage = "received"
    /\ IF request.files = <<>> THEN Fail("NoFile", "")
       ELSE IF request.pages = <<>> THEN Fail("NoPages", "")
       ELSE LET originalInfo == getPdfInfo(request.files[1])
                splitResults == splitPdf(request.files[1], request.pages)
            IN  IF originalInfo.threw THEN Fail("MalformedDocument", originalInfo.message)
                ELSE IF splitResults.threw THEN Fail("MalformedDocument", splitResults.message)
                ELSE IF Len(splitResults.value) = 0 THEN Fail("NoValidPages", "")
                ELSE StartUploads(splitResults.value)
    /\ UNCHANGED sweepVars
    /\ UNCHANGED parseVars
    /\ UNCHANGED restVars

\* router.post('/reorder') from the decoded order array up to its upload call
\* (lines 325-366); an empty array is answered at line 350.
ReorderRoute ==
    /\ request.op = "reorder" /\ stage = "received"
    /\ IF request.files = <<>> THEN Fail("NoFile", "")
       ELSE IF request.order = <<>> THEN Fail("InvalidOrderFormat", "")
       ELSE LET originalInfo == getPdfInfo(request.files[1])
                reorderedBuffer == reorderPdfPages(request.files[1], request.order)
            IN  IF originalInfo.threw THEN Fail("MalformedDocument", originalInfo.message)
                ELSE IF reorderedBuffer.threw THEN Fail("InvalidPageOrder", reorderedBuffer.message)
                ELSE StartUploads(<<[buffer |-> reorderedBuffer.value,
                                     pages |-> <<>>,
                                     pageCount |-> getPdfInfo(reorderedBuffer.value).value.pageCount]>>)
    /\ UNCHANGED sweepVars
    /\ UNCHANGED parseVars
    /\ UNCHANGED restVars

\* The provider stores output i and the upload promise resolves; when it was
\* the last one outstanding and none was rejected, the handler answers.
UploadOk(i) ==
    /\ i \in pending
    /\ pending' = pending \ {i}
    /\ stored' = stored \cup {i}
    /\ IF stage = "uploading" /\ pending = {i}
       THEN response' = Success /\ stage' = "responded"
       ELSE UNCHANGED <<response, stage>>
    /\ UNCHANGED <<request, outputs, cause>>
    /\ UNCHANGED sweepVars
    /\ UNCHANGED parseVars
    /\ UNCHANGED restVars

\* The upload promise of output i is rejected; the first rejection takes the
\* handler to its catch block, the other uploads stay in flight.
UploadFail(i) ==
    /\ i \in pending
    /\ pending' = pending \ {i}
    /\ IF stage = "uploading"
       THEN /\ response' = FailureResponse(request.op, "UpstreamUnavailable", UploadErrorMessage)
            /\ cause' = "UpstreamUnavailable"
            /\ stage' = "responded"
       ELSE UNCHANGED <<response, cause, stage>>
    /\ UNCHANGED <<request, outputs, stored>>
    /\ UNCHANGED sweepVars
    /\ UNCHANGED parseVars
    /\ UNCHANGED restVars

(***************************************************************************)
(* src/api/index.js: app.post('/api/pdf/split') (lines 268-310).           *)
(***************************************************************************)
\* Number(s) of a string of digits, blanks and other characters without a
\* sign, point or exponent: blanks around are dropped, the empty string is
\* 0, a run of digits is its value, anything else is NaN, written <<>>.
Number(s) ==
    LET t == Trim(s)
    IN  IF t = <<>> THEN <<0>>
        ELSE IF \A j \in 1..Len(t) : IsDigit(t[j]) THEN <<DigitsValue(t, 0)>>
        ELSE <<>>

\* pageNums of lines 277-284 for one trimmed range: every i - 1 for i from
\* start to end in the range branch, parseInt(p) - 1 for every piece between
\* commas otherwise; <<n>> is the number n and <<>> is NaN.
ApiPageNums(range) ==
    IF \E j \in 1..Len(range) : range[j] = "-"
    THEN LET start == Number(Split(range, "-")[1])
             end == Number(Split(range, "-")[2])
         IN  IF start = <<>> \/ end = <<>> THEN <<>>
             ELSE [k \in 1..(end[1] - start[1] + 1) |-> <<start[1] + k - 2>>]
    ELSE LET pieces == Split(range, ",")
         IN  [k \in 1..Len(pieces) |->
                 IF parseInt(pieces[k]) = <<>> THEN <<>> ELSE <<parseInt(pieces[k])[1] - 1>>]

\* copyPages reads srcPages[index].node: a TypeError for an index that is
\* NaN or names no page.
ApiCopyThrows(pdf, pageNums) ==
    \E k \in 1..Len(pageNums) :
        pageNums[k] = <<>> \/ pageNums[k][1] \notin 0..(getPageCount(pdf) - 1)

\* pages.split(';').map(r => r.trim()) of line 272: nothing is filtered.
ApiPageRanges(pages) == [j \in 1..Len(Split(pages, ";")) |-> Trim(Split(pages, ";")[j])]

\* The catch block of line 307.
ApiFail(why, outs) ==
    /\ response' = FailureResponse("split", why, "")
    /\ cause' = why
    /\ stage' = "responded"
    /\ outputs' = outs
    /\ pending' = {}
    /\ UNCHANGED request

\* The for loop of lines 274-298 from the range after those built: the
\* handler runs up to its next await of uploadToCloudinary, to the throw of
\* copyPages, or past the last range to res.json.
ApiSplitLoop(outs) ==
    LET pageRanges == ApiPageRanges(request.pages)
        k == Len(outs) + 1
    IN  IF k > Len(pageRanges)
        THEN /\ response' = Success
             /\ stage' = "responded"
             /\ outputs' = outs
             /\ pending' = {}
             /\ UNCHANGED <<request, cause>>
        ELSE LET pageNums == ApiPageNums(pageRanges[k])
             IN  IF ApiCopyThrows(request.files[1], pageNums) THEN ApiFail("TypeError", outs)
                 ELSE /\ outputs' = Append(outs,
                                 [buffer |-> save(copyPages(request.files[1],
                                                            [j \in 1..Len(pageNums) |-> pageNums[j][1]])),
                                  pages |-> pageRanges[k],
                                  pageCount |-> Len(pageNums)])
                      /\ pending' = {k}
                      /\ stage' = "uploading"
                      /\ UNCHANGED <<request, response, cause>>

\* The handler from its start to its first await of an upload: req.file
\* .buffer is a TypeError without a file, PDFDocument.load throws on bytes it
\* cannot parse.
ApiSplitRoute ==
    /\ request.op = "split" /\ stage = "received"
    /\ IF request.files = <<>> THEN ApiFail("TypeError", <<>>)
       ELSE IF ~request.files[1].parsable THEN ApiFail("MalformedDocument", <<>>)
       ELSE ApiSplitLoop(<<>>)
    /\ UNCHANGED stored
    /\ UNCHANGED sweepVars
    /\ UNCHANGED parseVars
    /\ UNCHANGED restVars

\* The awaited upload resolves: the object is stored, the result is pushed
\* and the loop goes on.
ApiUploadOk ==
    /\ stage = "uploading" /\ pending # {}
    /\ stored' = stored \cup pending
    /\ ApiSplitLoop(outputs)
    /\ UNCHANGED sweepVars
    /\ UNCHANGED parseVars
    /\ UNCHANGED restVars

\* The awaited upload is rejected: the catch block answers.
ApiUploadFail ==
    /\ stage = "uploading" /\ pending # {}
    /\ ApiFail("UpstreamUnavailable", outputs)
    /\ UNCHANGED stored
    /\ UNCHANGED sweepVars
    /\ UNCHANGED parseVars
    /\ UNCHANGED restVars

DocIdle ==
    /\ request = NoRequest
    /\ stage = "idle"
    /\ outputs = <<>>
    /\ pending = {}
    /\ stored = {}
    /\ response = NoResponse
    /\ cause = "none"

(***************************************************************************)
(* The two uploadToCloudinary helpers and the external store: the server's *)
(* (config/cloudinary, lines 17-35 of src/server/config/cloudinary.js) and *)
(* the serverless deployment's (src/api/index.js, lines 30-43).            *)
(***************************************************************************)
\* Requests whose uploads are followed, last clock value, most parts of a split.
MaxRequests == 2
MaxClock == 1
MaxParts == 2

Callers == 1..MaxRequests

\* The routes that upload: the document routes pass a public_id built from
\* Date.now() (rateLimiter.js lines 241, 295, 365), the others pass none.
DocumentRoutes == {"merge", "split", "reorder"}

UploadRoutes == DocumentRoutes \cup {"compress", "image"}

NoCall == [state |-> "idle", deployment |-> "server", route |-> "image", ids |-> {}, tags |-> {}]

\* tags: ['temp_upload', `uploaded_${timestamp}`] (cloudinary.js line 24)
ServerTags(timestamp) == {<<"temp_upload", 0>>, <<"uploaded", timestamp>>}

\* uploadOptions of src/api/index.js lines 32-36: no tags.
ApiTags(timestamp) == {}

\* The id the provider generates for an upload without public_id: unique.
GeneratedIds(r, n) == {<<"generated", r, i>> : i \in 1..n}

\* public_id of the server's document routes: `merged_${Date.now()}`,
\* `split_${Date.now()}_part${index + 1}`, `reordered_${Date.now()}`.
PublicIds(r, route, n, timestamp) ==
    IF route \in DocumentRoutes THEN {<<route, timestamp, i>> : i \in 1..n} ELSE GeneratedIds(r, n)

\* The handler of request r on the server calls uploadToCloudinary: once,
\* or once per part in the split route, within one synchronous map.
ServerUpload(r, route, n) ==
    /\ calls[r].state = "idle"
    /\ route = "split" \/ n = 1
    /\ calls' = [calls EXCEPT ![r] = [state |-> "uploading", deployment |-> "server",
                                      route |-> route,
                                      ids |-> PublicIds(r, route, n, now),
                                      tags |-> ServerTags(now)]]
    /\ UNCHANGED <<now, cloud>>
    /\ UNCHANGED <<sweepVars, parseVars, docVars>>
    /\ UNCHANGED laterVars

\* The handler of request r of the serverless deployment calls its
\* uploadToCloudinary; no route passes a public_id.
ApiUpload(r, route, n) ==
    /\ calls[r].state = "idle"
    /\ route = "split" \/ n = 1
    /\ calls' = [calls EXCEPT ![r] = [state |-> "uploading", deployment |-> "api",
                                      route |-> route,
                                      ids |-> GeneratedIds(r, n),
                                      tags |-> ApiTags(now)]]
    /\ UNCHANGED <<now, cloud>>
    /\ UNCHANGED <<sweepVars, parseVars, docVars>>
    /\ UNCHANGED laterVars

\* The provider stores the objects of request r, each under its id, in place
\* of whatever was stored under that id.
UploadStored(r) ==
    /\ calls[r].state = "uploading"
    /\ cloud' = {o \in cloud : o.id \notin calls[r].ids}
                   \cup {[id |-> id, owner |-> r, tags |-> calls[r].tags] : id \in calls[r].ids}
    /\ calls' = [calls EXCEPT ![r].state = "done"]
    /\ UNCHANGED now
    /\ UNCHANGED <<sweepVars, parseVars, docVars>>
    /\ UNCHANGED laterVars

\* A millisecond passes.
Tick ==
    /\ now < MaxClock
    /\ now' = now + 1
    /\ UNCHANGED <<cloud, calls>>
    /\ UNCHANGED <<sweepVars, parseVars, docVars>>
    /\ UNCHANGED laterVars

StoreIdle ==
    /\ now = 0
    /\ cloud = {}
    /\ calls = [r \in Callers |-> NoCall]

(***************************************************************************)
(* services/cleanupService: the configuration constants (lines 106-108).   *)
(***************************************************************************)
\* Longest value of an environment variable tried.
MaxEnvLen == 2

\* The characters tried in a value: digits, a minus sign, and a letter.
EnvAlphabet == {"0", "1", "2", "-", "a"}

\* An environment variable is unset, <<>>, or set to a string s, <<s>>.
EnvValues == {<<>>} \cup {<<s>> : s \in UNION {[1..n -> EnvAlphabet] : n \in 0..MaxEnvLen}}

\* The right-hand sides of || in lines 107 and 108.
CLEANUP_INTERVAL_DEFAULT == 15
FILE_TTL_HOURS_DEFAULT == 1

NotLoaded == [loaded |-> FALSE, CLEANUP_INTERVAL |-> 0, FILE_TTL_HOURS |-> 0]

\* parseInt(process.env.X) || default: parseInt of an unset variable is NaN,
\* and || takes the default for NaN and 0 only.
OrDefault(raw, default) ==
    LET n == IF raw = <<>> THEN <<>> ELSE parseInt(raw[1])
    IN  IF n = <<>> \/ n[1] = 0 THEN default ELSE n[1]

\* The module is loaded: lines 107-108 run once.
LoadConfig ==
    /\ ~config.loaded
    /\ config' = [loaded |-> TRUE,
                  CLEANUP_INTERVAL |-> OrDefault(env.CLEANUP_INTERVAL_MINUTES, CLEANUP_INTERVAL_DEFAULT),
                  FILE_TTL_HOURS |-> OrDefault(env.FILE_TTL_HOURS, FILE_TTL_HOURS_DEFAULT)]
    /\ UNCHANGED env
    /\ UNCHANGED <<sweepVars, parseVars, docVars, storeVars>>
    /\ UNCHANGED <<timeoutVars, editorVars>>

\* Nothing set in the environment, the module not loaded.
ConfigIdle ==
    /\ env = [CLEANUP_INTERVAL_MINUTES |-> <<>>, FILE_TTL_HOURS |-> <<>>]
    /\ config = NotLoaded

(***************************************************************************)
(* server.js: the timeout middleware (lines 40-45).                        *)
(***************************************************************************)
\* req.setTimeout(300000); res.setTimeout(300000): an idle timer on the
\* request's socket, with no 'timeout' listener.
NoTimeout == [fired |-> FALSE, storedThen |-> {}]

\* The timer fires while the handler has not answered: the socket is
\* destroyed.  Nothing in the handler listens for it, so the handler and the
\* uploads it started are as they were.
SocketTimeout ==
    /\ stage \in {"received", "uploading"}
    /\ ~timer.fired
    /\ timer' = [fired |-> TRUE, storedThen |-> stored]
    /\ UNCHANGED <<sweepVars, parseVars, docVars, storeVars>>
    /\ UNCHANGED <<configVars, editorVars>>

TimeoutIdle == timer = NoTimeout

(***************************************************************************)
(* client/src/pages/PdfEditor.jsx: the editor page.  The progress value is *)
(* display only and is left out.                                           *)
(***************************************************************************)
\* Files the user can pick, most files in the merge list, most requests of
\* one kind for one file awaiting a response.
MaxClientFiles == 2
MaxMergeFiles == 2
MaxCopies == 1

ClientFiles == 1..MaxClientFiles

\* info.pageCount of the response to getPdfInfo(file): file f has f + 1 pages.
PageCountOf(f) == f + 1

\* The tabs (lines 6-10).
Tabs == {"merge", "split", "reorder"}

\* The texts tried in the split input.
SplitTexts == {<<>>, <<" ">>, <<"1">>}

\* The requests of services/api the page makes.
ClientRequests ==
    {[kind |-> "merge", file |-> 0]}
        \cup {[kind |-> k, file |-> f] : k \in {"info", "split", "reorder"}, f \in ClientFiles}

\* A request is sent: its promise is pending.
Send(q) ==
    /\ flights[q] < MaxCopies
    /\ flights' = [flights EXCEPT ![q] = @ + 1]

\* The promise of a request settles.
Settle(q) ==
    /\ flights[q] > 0
    /\ flights' = [flights EXCEPT ![q] = @ - 1]

NotEditor == <<sweepVars, parseVars, docVars, storeVars, configVars, timeoutVars>>

\* The values handleReset sets (lines 135-143); activeTab and uploading are
\* not among them.
Cleared(e) ==
    [e EXCEPT !.files = <<>>, !.singleFile = 0, !.pdfInfo = 0, !.splitPages = <<>>,
              !.pageOrder = <<>>, !.result = "none"]

\* Two entries of an array exchanged.
Swapped(a, i, j) == [a EXCEPT ![i] = a[j], ![j] = a[i]]

\* handleMergeFilesSelect (lines 24-27), from the uploader of the merge tab.
handleMergeFilesSelect(newFiles) ==
    /\ editor.activeTab = "merge"
    /\ Len(editor.files) + Len(newFiles) <= MaxMergeFiles
    /\ editor' = [editor EXCEPT !.files = @ \o newFiles, !.result = "none"]
    /\ UNCHANGED flights
    /\ UNCHANGED NotEditor

\* removeFile (lines 29-31)
removeFile(index) ==
    /\ editor.activeTab = "merge"
    /\ index \in 0..(Len(editor.files) - 1)
    /\ editor' = [editor EXCEPT !.files = SubSeq(@, 1, index) \o SubSeq(@, index + 2, Len(@))]
    /\ UNCHANGED flights
    /\ UNCHANGED NotEditor

\* moveFile (lines 33-39)
moveFile(index, direction) ==
    /\ editor.activeTab = "merge"
    /\ index \in 0..(Len(editor.files) - 1)
    /\ LET newIndex == index + direction
       IN  IF newIndex < 0 \/ newIndex >= Len(editor.files) THEN UNCHANGED editor
           ELSE editor' = [editor EXCEPT !.files = Swapped(@, index + 1, newIndex + 1)]
    /\ UNCHANGED flights
    /\ UNCHANGED NotEditor

\* handleMerge up to its await (lines 41-51); its button is shown on the
\* merge tab without a result and with two files, enabled when not uploading.
handleMerge ==
    /\ editor.activeTab = "merge" /\ editor.result = "none"
    /\ Len(editor.files) >= 2 /\ ~editor.uploading
    /\ Send([kind |-> "merge", file |-> 0])
    /\ editor' = [editor EXCEPT !.uploading = TRUE]
    /\ UNCHANGED NotEditor

\* handleSingleFileSelect up to its await (lines 63-69); the uploader is
\* shown on the split and reorder tabs while no file is selected.
handleSingleFileSelect(file) ==
    /\ editor.activeTab \in {"split", "reorder"} /\ editor.singleFile = 0
    /\ Send([kind |-> "info", file |-> file])
    /\ editor' = [editor EXCEPT !.singleFile = file, !.result = "none"]
    /\ UNCHANGED NotEditor

\* getPdfInfo resolved: lines 69-72.  Nothing compares the file the response
\* is for with singleFile.
InfoResolved(file) ==
    /\ Settle([kind |-> "info", file |-> file])
    /\ editor' = [editor EXCEPT !.pdfInfo = PageCountOf(file),
                                !.pageOrder = [i \in 1..PageCountOf(file) |-> i]]
    /\ UNCHANGED NotEditor

\* getPdfInfo rejected: lines 73-76, a toast only.
InfoRejected(file) ==
    /\ Settle([kind |-> "info", file |-> file])
    /\ UNCHANGED editor
    /\ UNCHANGED NotEditor

\* onChange of the split input (line 297).
setSplitPages(text) ==
    /\ editor.activeTab = "split" /\ editor.singleFile # 0
    /\ editor' = [editor EXCEPT !.splitPages = text]
    /\ UNCHANGED flights
    /\ UNCHANGED NotEditor

\* handleSplit up to its await (lines 79-89); its button (lines 330-340) is
\* shown without a result and is disabled while uploading or without text.
handleSplit ==
    /\ editor.activeTab = "split" /\ editor.singleFile # 0 /\ editor.result = "none"
    /\ ~editor.uploading /\ Trim(editor.splitPages) # <<>>
    /\ Send([kind |-> "split", file |-> editor.singleFile])
    /\ editor' = [editor EXCEPT !.uploading = TRUE]
    /\ UNCHANGED NotEditor

\* handleReorder up to its await (lines 100-107); with an empty pageOrder it
\* returns at once.
handleReorder ==
    /\ editor.activeTab = "reorder" /\ editor.singleFile # 0 /\ editor.result = "none"
    /\ ~editor.uploading
    /\ IF Len(editor.pageOrder) = 0 THEN UNCHANGED <<editor, flights>>
       ELSE /\ Send([kind |-> "reorder", file |-> editor.singleFile])
            /\ editor' = [editor EXCEPT !.uploading = TRUE]
    /\ UNCHANGED NotEditor

\* The awaited mergePdfs, splitPdf or reorderPdf resolved (lines 52-53 and
\* 58, 90-91 and 96, 108-109 and 114): setResult with the type of the
\* request, then setUploading(false).  Nothing compares the type with
\* activeTab.
OperationResolved(q) ==
    /\ q.kind \in {"merge", "split", "reorder"}
    /\ Settle(q)
    /\ editor' = [editor EXCEPT !.result = q.kind, !.uploading = FALSE]
    /\ UNCHANGED NotEditor

\* The awaited request rejected: a toast, then setUploading(false).
OperationRejected(q) ==
    /\ q.kind \in {"merge", "split", "reorder"}
    /\ Settle(q)
    /\ editor' = [editor EXCEPT !.uploading = FALSE]
    /\ UNCHANGED NotEditor

\* movePage (lines 118-124), from a page card of the reorder tab.
movePage(index, direction) ==
    /\ editor.activeTab = "reorder" /\ editor.singleFile # 0
    /\ index \in 0..(Len(editor.pageOrder) - 1)
    /\ LET newIndex == index + direction
       IN  IF newIndex < 0 \/ newIndex >= Len(editor.pageOrder) THEN UNCHANGED editor
           ELSE editor' = [editor EXCEPT !.pageOrder = Swapped(@, index + 1, newIndex + 1)]
    /\ UNCHANGED flights
    /\ UNCHANGED NotEditor

\* handleReset (lines 135-143), from the remove button of the selected file
\* or from the button of a shown result.  Requests awaiting their response
\* are not cancelled.
handleReset ==
    /\ \/ editor.activeTab \in {"split", "reorder"} /\ editor.singleFile # 0
       \/ editor.activeTab = "merge" /\ editor.result = "merge"
    /\ editor' = Cleared(editor)
    /\ UNCHANGED flights
    /\ UNCHANGED NotEditor

\* onClick of a tab (lines 160-163): setActiveTab(tab.id); handleReset().
TabClick(tab) ==
    /\ editor' = [Cleared(editor) EXCEPT !.activeTab = tab]
    /\ UNCHANGED flights
    /\ UNCHANGED NotEditor

\* The initial values of useState (lines 13-21); no request sent.
EditorIdle ==
    /\ editor = [activeTab |-> "merge", files |-> <<>>, singleFile |-> 0, pdfInfo |-> 0,
                 splitPages |-> <<>>, pageOrder |-> <<>>, uploading |-> FALSE,
                 result |-> "none"]
    /\ flights = [q \in ClientRequests |-> 0]

LaterIdle == ConfigIdle /\ TimeoutIdle /\ EditorIdle

RestIdle == StoreIdle /\ LaterIdle

\* The server after app.listen: nothing uploaded, no cleanup started.
SweepInit ==
    /\ store = <<>>
    /\ kind = [o \in Ids |-> "image"]
    /\ age = [o \in Ids |-> 0]
    /\ sw = [s \in Sweeps |-> IdleFrame]

Init ==
    /\ SweepInit
    /\ pageString = <<>>
    /\ totalPages = 0
    /\ result = <<>>
    /\ called = FALSE
    /\ DocIdle
    /\ RestIdle

Next ==
    \/ \E s \in Sweeps : CronTick(s)
    \/ \E s \in Sweeps : RunCleanupNow(s)
    \/ \E s \in Sweeps : ListOk(s)
    \/ \E s \in Sweeps : ListFail(s)
    \/ \E s \in Sweeps, o \in Ids : DeleteOk(s, o)
    \/ \E s \in Sweeps, o \in Ids : DeleteFail(s, o)
    \/ \E o \in Ids, k \in ResourceTypes : Upload(o, k)
    \/ TimePasses

Spec == Init /\ [][Next]_vars


\* The retention job alone: one invocation at a time, driven by the cron
\* timer, beside uploads and the passing of time.
NextCron ==
    \/ CronTick(1)
    \/ ListOk(1)
    \/ ListFail(1)
    \/ \E o \in Ids : DeleteOk(1, o)
    \/ \E o \in Ids : DeleteFail(1, o)
    \/ \E o \in Ids, k \in ResourceTypes : Upload(o, k)
    \/ TimePasses

\* An external call of invocation s returns, one way or the other.
Returns(s) ==
    \/ ListOk(s)
    \/ ListFail(s)
    \/ \E o \in Ids : DeleteOk(s, o)
    \/ \E o \in Ids : DeleteFail(s, o)

ListOkOf(s, k) == ListOk(s) /\ sw[s].resourceType = k

\* Time passes, the timer keeps ticking, every external call returns, and
\* the listing of each resource type and the deletion of each object succeed
\* again and again when they are tried again and again.
RetentionSpec ==
    /\ Init
    /\ [][NextCron]_vars
    /\ WF_vars(TimePasses)
    /\ WF_vars(CronTick(1))
    /\ WF_vars(Returns(1))
    /\ \A k \in ResourceTypes : SF_vars(ListOkOf(1, k))
    /\ \A o \in Ids : SF_vars(DeleteOk(1, o))

(***************************************************************************)
(* Claims about the retention sweep.                                       *)
(***************************************************************************)

\* C1: at every moment at most one invocation of the sweep is active.
C1_AtMostOneSweepActive == Cardinality({s \in Sweeps : Active(s)}) <= 1

\* C2: no stored object is the target of delete calls in flight from two
\* sweeps that are active at the same time.
C2_NoDeleteFromTwoActiveSweeps ==
    \A s, t \in Sweeps :
        (s # t /\ sw[s].pc = "delete" /\ sw[t].pc = "delete") => Target(s) # Target(t)

\* C3: every tagged object whose age exceeds the TTL is eventually deleted.
C3_ExpiredEventuallyDeleted ==
    \A o \in Ids : (o \in Range(store) /\ isExpired(age[o])) ~> (o \notin Range(store))

\* C4: whenever a listing call is in flight, its answer holds every stored
\* object that carries the tag and has the resource type asked for.
C4_ListingHoldsEveryTaggedObject ==
    \A s \in Sweeps :
        sw[s].pc = "list" =>
            Range(getResourcesByTag(sw[s].resourceType))
                = {o \in Range(store) : kind[o] = sw[s].resourceType}

\* The cleanupResourceType call of resource type k of invocation s has
\* returned, and its listing call had not failed.
Swept(s, k) ==
    /\ k \notin sw[s].listFailed
    /\ \/ k = "image" /\ sw[s].resourceType = "raw" /\ sw[s].pc = "list"
       \/ k = "raw" /\ sw[s].pc = "done"

\* The count that call returned.
Returned(s, k) == IF k = "image" THEN sw[s].imagesDeleted ELSE sw[s].rawDeleted

\* C5: an object leaves the store only by the delete call of a sweep that
\* found it expired; every object a sweep is about to delete is a stored
\* object of the listed type older than the TTL, or is already gone; and a
\* sweep of a resource type without failing calls has deleted every expired
\* object of its listing.
C5_OnlyExpiredDeleted ==
    /\ [](\A s \in Sweeps :
            /\ sw[s].pc = "delete" =>
                 \A o \in Range(sw[s].expiredResources) :
                     o \in Range(store) =>
                         kind[o] = sw[s].resourceType /\ age[o] > FILE_TTL_HOURS
            /\ \A k \in ResourceTypes :
                 (Swept(s, k) /\ sw[s].attempted = sw[s].resolved) =>
                     Returned(s, k) = sw[s].nExpired)
    /\ [][\A o \in Ids :
            (o \in Range(store) /\ o \notin Range(store')) =>
                /\ age[o] > FILE_TTL_HOURS
                /\ \E s \in Sweeps : sw[s].pc = "delete" /\ Target(s) = o]_vars

\* A sweep has deleted two expired objects of one listing, all calls succeeding.
C5_Witness ==
    \E s \in Sweeps :
        Swept(s, "image") /\ sw[s].nExpired = 2 /\ sw[s].resolved = 2
            /\ \E o \in Range(store) : age[o] <= FILE_TTL_HOURS

\* C6: a failing delete call does not end the loop: while the loop runs a
\* call has returned for every expired object before the current one, when
\* it is over a call has returned for every expired object of the listing,
\* and the count returned is the number of calls that resolved.
C6_DeleteFailureDoesNotAbort ==
    \A s \in Sweeps :
        /\ sw[s].pc = "delete" =>
              sw[s].attempted = sw[s].i - 1 /\ sw[s].deletedCount = sw[s].resolved
        /\ \A k \in ResourceTypes :
              Swept(s, k) =>
                  sw[s].attempted = sw[s].nExpired /\ Returned(s, k) = sw[s].resolved

\* The first delete call of a listing failed, the second resolved.
C6_Witness ==
    \E s \in Sweeps :
        /\ Swept(s, "image") /\ sw[s].nExpired = 2 /\ sw[s].attempted = 2
        /\ sw[s].imagesDeleted = 1
        /\ store = <<2>> /\ kind[2] = "image" /\ isExpired(age[2])
        /\ \A t \in Sweeps : t # s => sw[t].pc = "idle"

\* C7: a failed listing of 'image' counts zero images and the invocation
\* goes on to list 'raw'; a failed listing of 'raw' counts zero raw files and
\* leaves the images' count in the total.
C7_ListFailureIsLocal ==
    \A s \in Sweeps :
        /\ "image" \in sw[s].listFailed =>
              sw[s].imagesDeleted = 0 /\ sw[s].resourceType = "raw"
                  /\ sw[s].pc \in {"list", "delete", "done"}
        /\ "raw" \in sw[s].listFailed =>
              sw[s].rawDeleted = 0 /\ sw[s].pc = "done"
                  /\ sw[s].totalDeleted = sw[s].imagesDeleted

\* The listing of images failed and the same invocation deleted a raw file.
C7_Witness ==
    \E s \in Sweeps :
        sw[s].pc = "done" /\ sw[s].listFailed = {"image"} /\ sw[s].rawDeleted = 1

\* The work an invocation has left, in external calls at most.
Rank(f) ==
    IF f.pc \notin {"list", "delete"} THEN 0
    ELSE (IF f.resourceType = "image" THEN MaxResults + 2 ELSE 0)
         + (IF f.pc = "list" THEN MaxResults + 1 ELSE Len(f.expiredResources) - f.i + 1)

\* C8: no invocation ever raises; an active invocation always has an
\* external call in flight whose return it can take; and every step of an
\* active invocation leaves it with strictly less work, so that it is done
\* after finitely many returns, whichever of them fail.
C8_EverySweepCompletes ==
    /\ [](\A s \in Sweeps :
            /\ sw[s].pc \in {"idle", "list", "delete", "done"}
            /\ Active(s) => ENABLED Returns(s))
    /\ [][\A s \in Sweeps :
            (Active(s) /\ sw'[s] # sw[s]) => Rank(sw'[s]) < Rank(sw[s])]_vars

\* An invocation is done after a failed listing and a failed deletion.
C8_Witness ==
    \E s \in Sweeps :
        sw[s].pc = "done" /\ sw[s].listFailed = {"image"}
            /\ sw[s].attempted = 2 /\ sw[s].resolved = 1

ParseInit ==
    /\ SweepInit
    /\ pageString \in Strings
    /\ totalPages \in 0..MaxPages
    /\ result = <<>>
    /\ called = FALSE
    /\ DocIdle
    /\ RestIdle

ParseNext == Parse

ParseSpec == ParseInit /\ [][ParseNext]_vars

(***************************************************************************)
(* Claims about parsePageRange.                                            *)
(***************************************************************************)

\* C10: every index parsePageRange returns is an integer i with
\* 0 <= i < totalPages; with totalPages = 0 it returns the empty array.
C10_IndicesInBounds ==
    called =>
        /\ \A j \in 1..Len(result) : result[j] \in 0..(totalPages - 1)
        /\ totalPages = 0 => result = <<>>

\* "0-12," on two pages: the range starts below 1 and ends above the page
\* count, the part after the comma is empty, and both pages are returned.
C10_Witness ==
    called /\ totalPages = 2 /\ pageString = <<"0", "-", "1", "2", ",">> /\ result = <<0, 1>>

\* What an atom of a page-range expression denotes, read off the grammar: a
\* page number is a run of digits, a range is two page numbers around one
\* dash, blanks around a number are allowed, anything else is malformed.
IsNumber(s) == s # <<>> /\ \A j \in 1..Len(s) : IsDigit(s[j])

RECURSIVE Value(_)
Value(s) == IF s = <<>> THEN 0 ELSE 10 * Value(SubSeq(s, 1, Len(s) - 1)) + DigitValue(s[Len(s)])

Dashes(atom) == {j \in 1..Len(atom) : atom[j] = "-"}

Low(atom) == Trim(SubSeq(atom, 1, (CHOOSE j \in Dashes(atom) : TRUE) - 1))

High(atom) == Trim(SubSeq(atom, (CHOOSE j \in Dashes(atom) : TRUE) + 1, Len(atom)))

WellFormedPage(atom) == IsNumber(Trim(atom))

WellFormedRange(atom) ==
    Cardinality(Dashes(atom)) = 1 /\ IsNumber(Low(atom)) /\ IsNumber(High(atom))

WellFormed(atom) == WellFormedPage(atom) \/ WellFormedRange(atom)

\* The in-bounds 1-based pages an atom denotes; none for a malformed atom.
Denotes(atom, total) ==
    IF WellFormedPage(atom) THEN {Value(Trim(atom))} \cap 1..total
    ELSE IF WellFormedRange(atom)
         THEN {i \in 1..total : Value(Low(atom)) <= i /\ i <= Value(High(atom))}
         ELSE {}

Atoms(str) == Split(str, ",")

DenotedIndices(str, total) ==
    {i - 1 : i \in UNION {Denotes(Atoms(str)[j], total) : j \in 1..Len(Atoms(str))}}

\* C11: parsePageRange returns its indices strictly ascending, hence without
\* duplicates, whatever the order or overlap of the atoms; for an expression
\* of well-formed atoms the set returned is exactly the union over the atoms
\* of the in-bounds 1-based pages each denotes, shifted to zero-based.
C11_AscendingUnionOfAtoms ==
    called =>
        /\ \A j \in 1..(Len(result) - 1) : result[j] < result[j + 1]
        /\ (\A j \in 1..Len(Atoms(pageString)) : WellFormed(Atoms(pageString)[j]))
               => Range(result) = DenotedIndices(pageString, totalPages)

\* "2,1-2" on two pages: the atoms are out of order and overlap, and the
\* result is [0, 1].
C11_Witness ==
    called /\ totalPages = 2 /\ pageString = <<"2", ",", "1", "-", "2">> /\ result = <<0, 1>>

\* C12: an atom that is not a well-formed page number or range contributes
\* no index, and the other atoms contribute what they denote: the result is
\* the union of what the well-formed atoms denote.
C12_MalformedAtomsContributeNothing ==
    called => Range(result) = DenotedIndices(pageString, totalPages)

\* C24: in a range atom start-end, start > end contributes nothing (no swap,
\* no wraparound); end > totalPages stops the contribution at totalPages;
\* start < 1 excludes only the indices below 1, the pages from 1 up to end
\* are still included.
C24_RangeAtomEdges ==
    (called /\ WellFormedRange(pageString)) =>
        LET start == Value(Low(pageString))
            end == Value(High(pageString))
        IN  /\ start > end => result = <<>>
            /\ (end > totalPages /\ start <= end) =>
                   /\ \A j \in 1..Len(result) : result[j] <= totalPages - 1
                   /\ \A i \in 1..totalPages : i >= start => i - 1 \in Range(result)
            /\ start < 1 =>
                   \A i \in 1..Min(end, totalPages) : i - 1 \in Range(result)

\* "2-1" on two pages: the start is above the end and nothing is returned.
C24_Witness ==
    called /\ totalPages = 2 /\ pageString = <<"2", "-", "1">> /\ result = <<>>

(***************************************************************************)
(* The document routes alone: one request of any of the three kinds, with  *)
(* every file list, split expression and order array within the bounds.    *)
(***************************************************************************)
\* The f-th file of a request: unparsable bytes or a document of 1..MaxPages pages.
Buffers(f) == {Garbage} \cup {Document(f, n) : n \in 1..MaxPages}

FileLists(most) ==
    UNION {{files \in [1..n -> UNION {Buffers(f) : f \in 1..n}] :
               \A f \in 1..n : files[f] \in Buffers(f)} : n \in 0..most}

\* The characters of the split expressions tried; the atoms themselves are
\* covered by the parser's own specification.
GroupAlphabet == {"1", "2", "-", ",", ";", " "}

Expressions == UNION {[1..n -> GroupAlphabet] : n \in 0..MaxExprLen}

Orders == UNION {[1..n -> 0..(MaxPages + 1)] : n \in 0..MaxOrderLen}

\* A request to one of the three routes.
MergeRequest(fs) == [op |-> "merge", files |-> fs, pages |-> <<>>, order |-> <<>>]

SplitRequest(fs, e) == [op |-> "split", files |-> fs, pages |-> e, order |-> <<>>]

ReorderRequest(fs, o) == [op |-> "reorder", files |-> fs, pages |-> <<>>, order |-> o]

DocInit ==
    /\ SweepInit
    /\ pageString = <<>>
    /\ totalPages = 0
    /\ result = <<>>
    /\ called = FALSE
    /\ \/ \E fs \in FileLists(MaxFiles) : request = MergeRequest(fs)
       \/ \E fs \in FileLists(1), e \in Expressions : request = SplitRequest(fs, e)
       \/ \E fs \in FileLists(1), o \in Orders : request = ReorderRequest(fs, o)
    /\ stage = "received"
    /\ outputs = <<>>
    /\ pending = {}
    /\ stored = {}
    /\ response = NoResponse
    /\ cause = "none"
    /\ RestIdle

DocNext ==
    \/ MergeRoute
    \/ SplitRoute
    \/ ReorderRoute
    \/ \E i \in 1..MaxExprLen : UploadOk(i)
    \/ \E i \in 1..MaxExprLen : UploadFail(i)

DocSpec == DocInit /\ [][DocNext]_vars

(***************************************************************************)
(* Claims about the document operations.                                   *)
(***************************************************************************)
\* The handler of a request on one parsable file has run its engine call.
Processed(op) ==
    /\ request.op = op /\ stage # "received"
    /\ request.files # <<>> /\ request.files[1].parsable

\* The groups of a split expression as given, and the index set of each.
Segments == Split(request.pages, ";")

IndexSets ==
    [j \in 1..Len(Segments) |-> parsePageRange(Segments[j], getPageCount(request.files[1]))]

\* The k-th of the groups in kept, in the order given.
Nth(kept, k) == CHOOSE j \in kept : Cardinality({h \in kept : h <= j}) = k

\* C13: splitPdf returns one output per group whose index set is non-empty,
\* in the order the groups were given; each output holds exactly that
\* group's pages in ascending index order, records the trimmed group text
\* and the size of the index set; empty groups and groups that resolve to no
\* pages are left out and do not make the call fail.
C13_OneOutputPerNonEmptyGroup ==
    (Processed("split") /\ request.pages # <<>>) =>
        LET segments == Segments
            indexSet == IndexSets
            nonEmpty == {j \in 1..Len(segments) : indexSet[j] # <<>>}
        IN  /\ Len(outputs) = Cardinality(nonEmpty)
            /\ \A k \in 1..Len(outputs) :
                  LET j == Nth(nonEmpty, k)
                  IN  /\ outputs[k].pages = Trim(segments[j])
                      /\ outputs[k].pageCount = Len(indexSet[j])
                      /\ outputs[k].buffer.parsable
                      /\ outputs[k].buffer.pages =
                            [i \in 1..Len(indexSet[j]) |-> request.files[1].pages[indexSet[j][i] + 1]]
                      /\ \A i \in 1..(Len(indexSet[j]) - 1) : indexSet[j][i] < indexSet[j][i + 1]
            /\ nonEmpty # {} => cause \in {"none", "UpstreamUnavailable"}

\* "2,1;-" on two pages: one output with pages 1 and 2 in document order
\* for the first group, none for the second, and the call goes on to upload.
C13_Witness ==
    /\ Processed("split")
    /\ request.pages = <<"2", ",", "1", ";", "-">>
    /\ Len(outputs) = 1
    /\ outputs[1].buffer.pages = <<11, 12>>
    /\ outputs[1].pages = <<"2", ",", "1">>
    /\ stage = "uploading"

\* C14: the split handler answers "No valid pages specified" if and only if
\* every group resolves to an empty index set; it has then built no output
\* document and has started no upload.
C14_NoValidPagesIffAllGroupsEmpty ==
    (Processed("split") /\ request.pages # <<>>) =>
        /\ LET indexSet == IndexSets
           IN  cause = "NoValidPages" <=> (\A j \in DOMAIN indexSet : indexSet[j] = <<>>)
        /\ cause = "NoValidPages" =>
              /\ response = [status |-> 400, error |-> "No valid pages specified", details |-> ""]
              /\ outputs = <<>> /\ pending = {} /\ stored = {}

\* The group "11" on a two-page document.
C14_Witness ==
    /\ Processed("split")
    /\ getPageCount(request.files[1]) = 2
    /\ request.pages = <<"1", "1">>
    /\ cause = "NoValidPages"
    /\ outputs = <<>> /\ stored = {}

\* The entries of the caller's order that lie in [1, totalPages], in the
\* caller's sequence.
InRange(n) == n >= 1 /\ n <= getPageCount(request.files[1])

Filtered == SelectSeq(request.order, InRange)

\* C15: reorderPdfPages builds its output from the entries of the caller's
\* order that lie in [1, totalPages], in the caller's sequence: result page k
\* is original page Filtered[k], duplicates are kept, the page count is the
\* length of the filtered sequence, and nothing is re-sorted.
C15_ReorderKeepsCallerSequence ==
    (Processed("reorder") /\ request.order # <<>>) =>
        /\ Filtered # <<>> => Len(outputs) = 1
        /\ \A k \in 1..Len(outputs) :
              /\ outputs[k].buffer.parsable
              /\ outputs[k].buffer.pages =
                    [i \in 1..Len(Filtered) |-> request.files[1].pages[Filtered[i]]]
              /\ outputs[k].pageCount = Len(Filtered)

\* The order [2, 0, 2] on a two-page document: page 2 twice, 0 dropped.
C15_Witness ==
    /\ Processed("reorder")
    /\ request.order = <<2, 0, 2>>
    /\ Len(outputs) = 1
    /\ outputs[1].buffer.pages = <<12, 12>>
    /\ outputs[1].pageCount = 2

\* C16: reorderPdfPages throws "Invalid page order specified" exactly when
\* no entry of the caller's order lies in [1, totalPages]; the handler then
\* answers with that error, having built no output and started no upload.
C16_InvalidPageOrderIffNoneInRange ==
    (request.op = "reorder" /\ request.files # <<>> /\ request.files[1].parsable) =>
        /\ reorderPdfPages(request.files[1], request.order).threw <=> Filtered = <<>>
        /\ reorderPdfPages(request.files[1], request.order).threw =>
              reorderPdfPages(request.files[1], request.order).message = "Invalid page order specified"
        /\ (stage # "received" /\ request.order # <<>>) =>
              /\ cause = "InvalidPageOrder" <=> Filtered = <<>>
              /\ cause = "InvalidPageOrder" =>
                    /\ response = [status |-> 500, error |-> "Failed to reorder PDF pages",
                                    details |-> "Invalid page order specified"]
                    /\ outputs = <<>> /\ pending = {} /\ stored = {}

\* The order [3, 0] on a two-page document.
C16_Witness ==
    /\ Processed("reorder")
    /\ getPageCount(request.files[1]) = 2
    /\ request.order = <<3, 0>>
    /\ cause = "InvalidPageOrder"
    /\ outputs = <<>> /\ stored = {}

\* The number of pages of the files before the f-th of the request.
RECURSIVE PagesBefore(_)
PagesBefore(f) == IF f = 1 THEN 0 ELSE PagesBefore(f - 1) + getPageCount(request.files[f - 1])

AllParsable == \A f \in 1..Len(request.files) : request.files[f].parsable

\* C17: mergePdfs outputs the concatenation of its inputs: page p of input f
\* is at position (pages of the inputs before f) + p of the result, and the
\* result has as many pages as the inputs together, so no page is dropped,
\* repeated or moved.
C17_MergeConcatenates ==
    (request.op = "merge" /\ stage # "received" /\ Len(request.files) >= 2 /\ AllParsable) =>
        /\ Len(outputs) = 1
        /\ outputs[1].buffer.parsable
        /\ Len(outputs[1].buffer.pages) = PagesBefore(Len(request.files) + 1)
        /\ outputs[1].pageCount = PagesBefore(Len(request.files) + 1)
        /\ \A f \in 1..Len(request.files) : \A p \in 1..getPageCount(request.files[f]) :
              outputs[1].buffer.pages[PagesBefore(f) + p] = request.files[f].pages[p]

\* A two-page file, a one-page file and a two-page file, merged.
C17_Witness ==
    /\ request.op = "merge" /\ stage # "received"
    /\ Len(request.files) = 3
    /\ Len(outputs) = 1
    /\ outputs[1].buffer.pages = <<11, 12, 21, 31, 32>>

\* C18: mergePdfs throws the load error whenever one of its input buffers
\* is not a parsable document, whatever its position; the handler answers
\* with its failure response, and a merge that failed has stored no object.
C18_MergeFailsOnUnparsableInput ==
    request.op = "merge" =>
        /\ ~AllParsable =>
              /\ mergePdfs(request.files).threw
              /\ mergePdfs(request.files).message = LoadErrorMessage
        /\ (stage # "received" /\ Len(request.files) >= 2 /\ ~AllParsable) =>
              /\ cause = "MalformedDocument"
              /\ response = [status |-> 500, error |-> "Failed to merge PDFs",
                              details |-> LoadErrorMessage]
              /\ outputs = <<>> /\ pending = {}
        /\ (stage = "responded" /\ response.status # 200) => stored = {}

\* Three files of which only the last is unparsable.
C18_Witness ==
    /\ request.op = "merge" /\ stage = "responded"
    /\ Len(request.files) = 3
    /\ request.files[1].parsable /\ request.files[2].parsable /\ ~request.files[3].parsable
    /\ cause = "MalformedDocument"
    /\ stored = {}

\* The expression "1-n" for a one-digit n.
FullRange(n) == <<"1", "-", CHOOSE c \in {"1", "2", "3", "4", "5", "6", "7", "8", "9"} : DigitValue(c) = n>>

\* C19: for a document of n pages, splitPdf with the single group "1-n"
\* returns one document, and mergePdfs of that one document has n pages.
C19_SplitThenMergeKeepsPageCount ==
    (Processed("split") /\ request.pages = FullRange(getPageCount(request.files[1]))) =>
        /\ Len(outputs) = 1
        /\ ~mergePdfs(<<outputs[1].buffer>>).threw
        /\ getPageCount(mergePdfs(<<outputs[1].buffer>>).value) = getPageCount(request.files[1])

\* A two-page document split with "1-2".
C19_Witness ==
    /\ Processed("split")
    /\ getPageCount(request.files[1]) = 2
    /\ request.pages = <<"1", "-", "2">>
    /\ Len(outputs) = 1
    /\ getPageCount(mergePdfs(<<outputs[1].buffer>>).value) = 2

\* The causes for which the handler of an operation sends a failure response.
Causes(op) ==
    CASE op = "merge" -> {"TooFewFiles", "MalformedDocument", "UpstreamUnavailable"}
      [] op = "split" -> {"NoFile", "NoPages", "MalformedDocument", "NoValidPages",
                          "UpstreamUnavailable"}
      [] op = "reorder" -> {"NoFile", "InvalidOrderFormat", "MalformedDocument",
                            "InvalidPageOrder", "UpstreamUnavailable"}

\* The message of the error thrown for a cause.
MessageOf(why) ==
    CASE why = "MalformedDocument" -> LoadErrorMessage
      [] why = "UpstreamUnavailable" -> UploadErrorMessage
      [] why = "InvalidPageOrder" -> "Invalid page order specified"
      [] OTHER -> ""

\* The failure kind a response carries: its status and its error field.
Kind(r) == <<r.status, r.error>>

\* C20: a failed document operation returns a failure kind specific to its
\* cause: no other cause of the same operation yields the kind of the
\* response that was sent.
C20_DistinctCausesDistinctKinds ==
    (stage = "responded" /\ response.status # 200) =>
        \A why \in Causes(request.op) \ {cause} :
            Kind(FailureResponse(request.op, why, MessageOf(why))) # Kind(response)

(***************************************************************************)
(* Uploads of concurrent requests to the external store, through either    *)
(* deployment.                                                             *)
(***************************************************************************)
StoreNext ==
    \/ \E r \in Callers, route \in UploadRoutes, n \in 1..MaxParts : ServerUpload(r, route, n)
    \/ \E r \in Callers, route \in UploadRoutes, n \in 1..MaxParts : ApiUpload(r, route, n)
    \/ \E r \in Callers : UploadStored(r)
    \/ Tick

StoreSpec == Init /\ [][StoreNext]_vars

\* C21: every object uploaded to the external store, through any upload
\* path, carries the fixed temporary tag and a creation-timestamp tag.
C21_EveryObjectTagged ==
    \A o \in cloud :
        /\ <<"temp_upload", 0>> \in o.tags
        /\ \E timestamp \in 0..MaxClock : <<"uploaded", timestamp>> \in o.tags

\* C26: two requests handled concurrently never store their outputs under
\* the same object id, so the objects a request stored stay its own.
C26_DistinctIdsAcrossRequests ==
    /\ \A r1, r2 \in Callers : r1 # r2 => calls[r1].ids \cap calls[r2].ids = {}
    /\ \A r \in Callers :
          calls[r].state = "done" =>
              \A id \in calls[r].ids : \E o \in cloud : o.id = id /\ o.owner = r

(***************************************************************************)
(* Claims about isExpired and the retention window.                        *)
(***************************************************************************)
\* C22: isExpired is true exactly when now - creationTime is strictly
\* greater than the TTL, with now read at each call: at an age equal to the
\* TTL an object is not expired, and an object that is expired at one call
\* is expired at every later call, while one that is not may become so.
C22_ExpiredStrictlyAfterTtl ==
    /\ [](/\ \A createdAge \in 0..(FILE_TTL_HOURS + 1) :
                isExpired(createdAge) <=> createdAge >= FILE_TTL_HOURS + 1
          /\ \A s \in Sweeps : \A j \in 1..Len(sw[s].expiredResources) :
                sw[s].expiredResources[j] \in Range(store)
                    => age[sw[s].expiredResources[j]] = FILE_TTL_HOURS + 1)
    /\ [][\A o \in Range(store) \cap Range(store') :
              /\ age'[o] >= age[o]
              /\ isExpired(age[o]) => isExpired(age'[o])]_vars

\* A sweep that listed an image aged exactly the TTL beside an older one
\* kept only the older one for deletion.
C22_Witness ==
    /\ sw[1].pc = "delete"
    /\ \E o \in Range(store) :
          /\ kind[o] = "image" /\ age[o] = FILE_TTL_HOURS
          /\ o \in Range(getResourcesByTag("image"))
          /\ o \notin Range(sw[1].expiredResources)
    /\ \E o \in Range(store) : o \in Range(sw[1].expiredResources)


(***************************************************************************)
(* The configuration alone: every pair of environment values within the    *)
(* bounds, then the module load.                                           *)
(***************************************************************************)
ConfigInit ==
    /\ SweepInit
    /\ pageString = <<>>
    /\ totalPages = 0
    /\ result = <<>>
    /\ called = FALSE
    /\ DocIdle
    /\ StoreIdle
    /\ env \in [CLEANUP_INTERVAL_MINUTES : EnvValues, FILE_TTL_HOURS : EnvValues]
    /\ config = NotLoaded
    /\ TimeoutIdle
    /\ EditorIdle

ConfigNext == LoadConfig

ConfigSpec == ConfigInit /\ [][ConfigNext]_vars

\* The value prescribed for a configured value: the number it spells when
\* that is a positive integer, the default otherwise.
OrDefaultUnlessPositive(raw, default) ==
    LET n == IF raw = <<>> THEN <<>> ELSE parseInt(raw[1])
    IN  IF n = <<>> \/ n[1] <= 0 THEN default ELSE n[1]

\* C23: the effective TTL (hours) and sweep interval (minutes) are always
\* positive integers: an absent, non-numeric, zero or negative configured
\* value is replaced by the default, 1 hour and 15 minutes.
C23_EffectiveValuesPositive ==
    config.loaded =>
        /\ config.FILE_TTL_HOURS \in Nat \ {0}
        /\ config.CLEANUP_INTERVAL \in Nat \ {0}
        /\ OrDefaultUnlessPositive(env.FILE_TTL_HOURS, FILE_TTL_HOURS_DEFAULT) = config.FILE_TTL_HOURS
        /\ OrDefaultUnlessPositive(env.CLEANUP_INTERVAL_MINUTES, CLEANUP_INTERVAL_DEFAULT)
               = config.CLEANUP_INTERVAL

(***************************************************************************)
(* The document routes behind the timeout middleware.                      *)
(***************************************************************************)
TimeoutNext == DocNext \/ SocketTimeout

TimeoutSpec == DocInit /\ [][TimeoutNext]_vars

\* C25: when a merge, split or reorder request exceeds its timeout, its work
\* is abandoned: the request stores no object in the external store after
\* the timeout has fired.
C25_NothingStoredAfterTimeout == timer.fired => stored = timer.storedThen

(***************************************************************************)
(* The split handler of the serverless deployment alone, on every split    *)
(* request within the bounds.                                              *)
(***************************************************************************)
ApiSplitInit == DocInit /\ request.op = "split"

ApiSplitNext ==
    \/ ApiSplitRoute
    \/ ApiUploadOk
    \/ ApiUploadFail

ApiSplitSpec == ApiSplitInit /\ [][ApiSplitNext]_vars

\* C27: for every page-range expression and every source page count the
\* serverless split handler produces the same sequence of output page groups
\* as splitPdf: out-of-bounds pages filtered, comma-separated atoms inside a
\* group honoured, pages ascending without duplicates, and no output for a
\* group that resolves to no pages.
C27_ApiSplitMatchesSplitPdf ==
    (/\ request.op = "split" /\ stage = "responded"
     /\ request.files # <<>> /\ request.files[1].parsable
     /\ cause # "UpstreamUnavailable") =>
        LET expected == splitPdf(request.files[1], request.pages).value
        IN  [j \in 1..Len(outputs) |-> outputs[j].buffer.pages]
                = [j \in 1..Len(expected) |-> expected[j].buffer.pages]

(***************************************************************************)
(* The editor page alone: the user's actions and the responses.            *)
(***************************************************************************)
EditorNext ==
    \/ \E f \in ClientFiles : handleMergeFilesSelect(<<f>>)
    \/ \E index \in 0..(MaxMergeFiles - 1) : removeFile(index)
    \/ \E index \in 0..(MaxMergeFiles - 1), direction \in {-1, 1} : moveFile(index, direction)
    \/ handleMerge
    \/ \E f \in ClientFiles : handleSingleFileSelect(f)
    \/ \E f \in ClientFiles : InfoResolved(f)
    \/ \E f \in ClientFiles : InfoRejected(f)
    \/ \E text \in SplitTexts : setSplitPages(text)
    \/ handleSplit
    \/ handleReorder
    \/ \E q \in ClientRequests : OperationResolved(q)
    \/ \E q \in ClientRequests : OperationRejected(q)
    \/ \E index \in 0..MaxClientFiles, direction \in {-1, 1} : movePage(index, direction)
    \/ handleReset
    \/ \E tab \in Tabs : TabClick(tab)

EditorSpec == Init /\ [][EditorNext]_vars

\* C28: whenever a file is selected and its page order is shown, pageOrder
\* is a permutation of 1..pageCount of the selected file: initialised to
\* 1..pageCount, changed by movePage only by swapping two adjacent entries,
\* and never replaced by the page-info response for a file that is no longer
\* the selected one.
C28_PageOrderIsPermutationOfSelected ==
    (editor.singleFile # 0 /\ editor.pageOrder # <<>>) =>
        /\ Len(editor.pageOrder) = PageCountOf(editor.singleFile)
        /\ Range(editor.pageOrder) = 1..PageCountOf(editor.singleFile)

\* C29: a stored result belongs to the active tab, result.type = activeTab:
\* the response of a merge, split or reorder request started before a tab
\* switch or a reset is never stored as the current result.
C29_ResultBelongsToActiveTab ==
    editor.result # "none" => editor.result = editor.activeTab

=========================================================================
